---- MODULE Spec2Model ----
\* Alternating disks (disks.hpp): the disk_state row, its accessors and
\* adjacent swap, and the two sorting algorithms sort_left_to_right and
\* sort_lawnmower, run step by step on the same input row.
EXTENDS Integers, Sequences, FiniteSets, TLC

\* ---------------------------------------------------------------- bounds
\* largest light_count handed to the constructor
MaxN == 3
\* width of size_t in the model (index arithmetic is modulo 2^SizeBits)
SizeBits == 4
\* outer-loop iterations after which a run is no longer followed
PassCap == 8

SizeMod == 2 ^ SizeBits
SizeT == 0 .. (SizeMod - 1)

\* ---------------------------------------------------------------- colours
DISK_LIGHT == "DISK_LIGHT"
DISK_DARK == "DISK_DARK"
disk_color == {DISK_LIGHT, DISK_DARK}

VARIABLES
    phase,        \* "new", "built", "sorting", "aborted"
    light_count,  \* argument the row was constructed with
    colors,       \* disk_state::_colors of the row under construction
    call,         \* last member call made by the driver: [op, index, ret]
    before,       \* argument of the two sort calls
    ltr,          \* locals of sort_left_to_right
    lawn,         \* locals of sort_lawnmower
    resorted      \* before is the result of a previous run

vars == <<phase, light_count, colors, call, before, ltr, lawn, resorted>>

\* ---------------------------------------------------------------- disk_state
\* C++ index i is position i+1 of the sequence.
total_count(c) == Len(c)

is_index_Strict(c, i) == i + 1 < total_count(c)

is_index(c, i) == i < total_count(c)

get(c, index) == c[index + 1]

swap_Copy(c, left_index) ==
    [c EXCEPT ![left_index + 1] = c[left_index + 2]]

swap(c, left_index) ==
    [c EXCEPT ![left_index + 1] = c[left_index + 2],
              ![left_index + 2] = c[left_index + 1]]

\* the constructor's vector: light_count*2 lights, even indices then set dark
disk_state(k) ==
    [p \in 1 .. (2 * k) |-> IF (p - 1) % 2 = 0 THEN DISK_DARK ELSE DISK_LIGHT]

RECURSIVE is_sorted_scan(_, _, _, _)
is_sorted_scan(c, i, s, limit) ==
    IF i < limit
    THEN IF get(c, i) = DISK_LIGHT
         THEN is_sorted_scan(c, i + 1, TRUE, limit)
         ELSE FALSE
    ELSE s

is_sorted_ShortScan(c) == is_sorted_scan(c, 0, FALSE, (total_count(c) \div 2) - 1)

is_sorted_LongScan(c) == is_sorted_scan(c, 0, FALSE, (total_count(c) \div 2) + 1)

is_sorted(c) == is_sorted_scan(c, 0, FALSE, total_count(c) \div 2)

\* ---------------------------------------------------------------- driver
NoCall == [op |-> "none", index |-> 0, ret |-> "none"]
\* pc: "idle" (not called), "while" (at the loop test), "for" (forward scan
\* at index i), "back" (backward scan at index j), "done" (returned);
\* passes counts the outer-loop iterations entered.
NoRun ==
    [after |-> <<>>, swap_count |-> 0, pc |-> "idle", i |-> 0, j |-> 0, passes |-> 0]
NewRun(c) ==
    [after |-> c, swap_count |-> 0, pc |-> "while", i |-> 0, j |-> 0, passes |-> 0]

Init ==
    /\ phase = "new"
    /\ light_count = 0
    /\ colors = <<>>
    /\ call = NoCall
    /\ before = <<>>
    /\ ltr = NoRun
    /\ lawn = NoRun
    /\ resorted = FALSE

\* disk_state(size_t light_count)
Construct(k) ==
    /\ phase = "new"
    /\ light_count' = k
    /\ call' = [op |-> "ctor", index |-> k, ret |-> "none"]
    /\ IF k > 0
       THEN /\ colors' = disk_state(k)
            /\ phase' = "built"
       ELSE /\ colors' = <<>>
            /\ phase' = "aborted"
    /\ UNCHANGED <<before, ltr, lawn, resorted>>

GetOk(c, index) == is_index(c, index)

\* disk_state::get called by the driver
Get(index) ==
    /\ phase = "built"
    /\ IF GetOk(colors, index)
       THEN /\ call' = [op |-> "get", index |-> index, ret |-> get(colors, index)]
            /\ phase' = phase
       ELSE /\ call' = [op |-> "get", index |-> index, ret |-> "none"]
            /\ phase' = "aborted"
    /\ UNCHANGED <<light_count, colors, before, ltr, lawn, resorted>>

SwapOk(c, left_index) ==
    /\ is_index(c, left_index)
    /\ is_index(c, (left_index + 1) % SizeMod)

\* disk_state::swap called by the driver
Swap(left_index) ==
    /\ phase = "built"
    /\ call' = [op |-> "swap", index |-> left_index, ret |-> "none"]
    /\ IF SwapOk(colors, left_index)
       THEN /\ colors' = swap(colors, left_index)
            /\ phase' = phase
       ELSE /\ colors' = colors
            /\ phase' = "aborted"
    /\ UNCHANGED <<light_count, before, ltr, lawn, resorted>>

\* the driver hands the row to both algorithms; each copies it
Sort ==
    /\ phase = "built"
    /\ phase' = "sorting"
    /\ before' = colors
    /\ ltr' = NewRun(colors)
    /\ lawn' = NewRun(colors)
    /\ call' = NoCall
    /\ resorted' = FALSE
    /\ UNCHANGED <<light_count, colors>>

\* the driver sorts the row a finished run returned
Resort ==
    /\ phase = "sorting"
    /\ ltr.pc = "done"
    /\ lawn.pc = "done"
    /\ \E r \in {ltr.after, lawn.after} :
          /\ before' = r
          /\ ltr' = NewRun(r)
          /\ lawn' = NewRun(r)
    /\ resorted' = TRUE
    /\ UNCHANGED <<phase, light_count, colors, call>>

\* ---------------------------------------------------------------- sort_left_to_right
SizeSub(a, b) == (a - b + SizeMod) % SizeMod
SizeAdd(a, b) == (a + b) % SizeMod

\* the asserts of get(i), get(i + 1) and swap(i) in a forward scan body
ForwardAsserts(c, i) ==
    /\ is_index(c, i)
    /\ (get(c, i) = DISK_DARK => is_index(c, SizeAdd(i, 1)))

LtrCond_DarkDark(c, i) ==
    get(c, i) = DISK_DARK /\ get(c, SizeAdd(i, 1)) = DISK_DARK

LtrCond_DarkOnly(c, i) ==
    get(c, i) = DISK_DARK

LtrCond(c, i) ==
    get(c, i) = DISK_DARK /\ get(c, SizeAdd(i, 1)) = DISK_LIGHT

\* while(!after.is_sorted())
LtrWhile ==
    /\ phase = "sorting"
    /\ ltr.pc = "while"
    /\ IF is_sorted(ltr.after)
       THEN ltr' = [ltr EXCEPT !.pc = "done"]
       ELSE /\ ltr.passes < PassCap
            /\ ltr' = [ltr EXCEPT !.pc = "for", !.i = 0, !.passes = @ + 1]
    /\ UNCHANGED <<phase, light_count, colors, call, before, lawn, resorted>>

\* one iteration of for (i = 0; i < total_count() - 1; i++), or its exit
LtrFor ==
    /\ phase = "sorting"
    /\ ltr.pc = "for"
    /\ IF ltr.i < SizeSub(total_count(ltr.after), 1)
       THEN IF ~ForwardAsserts(ltr.after, ltr.i)
            THEN /\ phase' = "aborted"
                 /\ ltr' = ltr
            ELSE /\ phase' = phase
                 /\ IF LtrCond(ltr.after, ltr.i)
                    THEN ltr' = [ltr EXCEPT !.after = swap(@, ltr.i),
                                            !.swap_count = @ + 1,
                                            !.i = SizeAdd(@, 1)]
                    ELSE ltr' = [ltr EXCEPT !.i = SizeAdd(@, 1)]
       ELSE /\ phase' = phase
            /\ ltr' = [ltr EXCEPT !.pc = "while"]
    /\ UNCHANGED <<light_count, colors, call, before, lawn, resorted>>

LtrStep == LtrWhile \/ LtrFor

\* ---------------------------------------------------------------- sort_lawnmower
LawnForCond(c, i) ==
    get(c, i) = DISK_DARK /\ get(c, SizeAdd(i, 1)) = DISK_LIGHT

\* the asserts of get(j), get(j - 1) and swap(j - 1) in a backward scan body
BackwardAsserts(c, j) ==
    /\ is_index(c, j)
    /\ (get(c, j) = DISK_LIGHT => is_index(c, SizeSub(j, 1)))

LawnBackCond_LightOnly(c, j) ==
    get(c, j) = DISK_LIGHT

LawnBackCond_Reversed(c, j) ==
    get(c, j) = DISK_DARK /\ get(c, SizeSub(j, 1)) = DISK_LIGHT

LawnBackCond(c, j) ==
    get(c, j) = DISK_LIGHT /\ get(c, SizeSub(j, 1)) = DISK_DARK

\* while(!after.is_sorted())
LawnWhile ==
    /\ phase = "sorting"
    /\ lawn.pc = "while"
    /\ IF is_sorted(lawn.after)
       THEN lawn' = [lawn EXCEPT !.pc = "done"]
       ELSE /\ lawn.passes < PassCap
            /\ lawn' = [lawn EXCEPT !.pc = "for", !.i = 0, !.passes = @ + 1]
    /\ UNCHANGED <<phase, light_count, colors, call, before, ltr, resorted>>

\* one iteration of for (i = 0; i < total_count() - 1; i++), or its exit
\* into the backward scan, which starts at j = total_count() - 1
LawnFor ==
    /\ phase = "sorting"
    /\ lawn.pc = "for"
    /\ IF lawn.i < SizeSub(total_count(lawn.after), 1)
       THEN IF ~ForwardAsserts(lawn.after, lawn.i)
            THEN /\ phase' = "aborted"
                 /\ lawn' = lawn
            ELSE /\ phase' = phase
                 /\ IF LawnForCond(lawn.after, lawn.i)
                    THEN lawn' = [lawn EXCEPT !.after = swap(@, lawn.i),
                                              !.swap_count = @ + 1,
                                              !.i = SizeAdd(@, 1)]
                    ELSE lawn' = [lawn EXCEPT !.i = SizeAdd(@, 1)]
       ELSE /\ phase' = phase
            /\ lawn' = [lawn EXCEPT !.pc = "back",
                                    !.j = SizeSub(total_count(lawn.after), 1)]
    /\ UNCHANGED <<light_count, colors, call, before, ltr, resorted>>

\* one iteration of for (j = total_count() - 1; j > 0; j--), or its exit
LawnBack ==
    /\ phase = "sorting"
    /\ lawn.pc = "back"
    /\ IF lawn.j > 0
       THEN IF ~BackwardAsserts(lawn.after, lawn.j)
            THEN /\ phase' = "aborted"
                 /\ lawn' = lawn
            ELSE /\ phase' = phase
                 /\ IF LawnBackCond(lawn.after, lawn.j)
                    THEN lawn' = [lawn EXCEPT !.after = swap(@, SizeSub(lawn.j, 1)),
                                              !.swap_count = @ + 1,
                                              !.j = SizeSub(@, 1)]
                    ELSE lawn' = [lawn EXCEPT !.j = SizeSub(@, 1)]
       ELSE /\ phase' = phase
            /\ lawn' = [lawn EXCEPT !.pc = "while"]
    /\ UNCHANGED <<light_count, colors, call, before, ltr, resorted>>

LawnStep == LawnWhile \/ LawnFor \/ LawnBack

\* ---------------------------------------------------------------- specification
Next ==
    \/ \E k \in 0 .. MaxN : Construct(k)
    \/ \E index \in SizeT : Get(index)
    \/ \E left_index \in SizeT : Swap(left_index)
    \/ Sort
    \/ Resort
    \/ LtrWhile
    \/ LtrFor
    \/ LawnWhile
    \/ LawnFor
    \/ LawnBack

Spec == Init /\ [][Next]_vars

\* Each call is sequential code that runs until it returns: a run that can
\* take a step eventually takes it.
FairSpec == Spec /\ WF_vars(LtrStep) /\ WF_vars(LawnStep)

\* ---------------------------------------------------------------- vocabulary of the properties
\* DARK, LIGHT repeated k times
AlternatingRow(k) ==
    [p \in 1 .. (2 * k) |-> IF p % 2 = 1 THEN DISK_DARK ELSE DISK_LIGHT]

\* length 2k, lights at indices 0..k-1, darks at indices k..2k-1
LightHalfFirst(c, k) ==
    /\ Len(c) = 2 * k
    /\ \A p \in 1 .. k : c[p] = DISK_LIGHT
    /\ \A p \in (k + 1) .. (2 * k) : c[p] = DISK_DARK

CountOf(c, color) == Cardinality({p \in 1 .. Len(c) : c[p] = color})

\* pairs of positions p < q with a dark disk at p and a light disk at q
Inversions(c) ==
    Cardinality({pq \in (1 .. Len(c)) \X (1 .. Len(c)) :
                    /\ pq[1] < pq[2]
                    /\ c[pq[1]] = DISK_DARK
                    /\ c[pq[2]] = DISK_LIGHT})

Sorting == phase = "sorting"
FromCanonical == Sorting /\ before = AlternatingRow(light_count)
LtrReturned == Sorting /\ ltr.pc = "done"
LawnReturned == Sorting /\ lawn.pc = "done"
BothReturned == LtrReturned /\ LawnReturned

\* ---------------------------------------------------------------- C1
\* C1: on the canonical row of n >= 1, each algorithm returns a row of
\* length 2n with indices 0..n-1 light and n..2n-1 dark, on which is_sorted()
\* is true.
C1_SortedResult ==
    /\ (FromCanonical /\ LtrReturned) =>
          /\ LightHalfFirst(ltr.after, light_count)
          /\ is_sorted(ltr.after)
    /\ (FromCanonical /\ LawnReturned) =>
          /\ LightHalfFirst(lawn.after, light_count)
          /\ is_sorted(lawn.after)

C1_Witness ==
    /\ FromCanonical
    /\ BothReturned
    /\ ~resorted
    /\ light_count = MaxN
    /\ ltr.after # before
    /\ lawn.after # before

\* ---------------------------------------------------------------- C2
\* C2: started on the canonical row, both algorithms leave their while loop
\* and return.
C2_Terminates == FromCanonical ~> (FromCanonical /\ BothReturned)

C2_Witness ==
    /\ FromCanonical
    /\ BothReturned
    /\ ~resorted
    /\ ltr.passes > 1
    /\ lawn.passes > 1

\* ---------------------------------------------------------------- C3
\* C3: on the canonical row the two algorithms return the same swap count.
C3_SameSwapCount ==
    (FromCanonical /\ BothReturned) => ltr.swap_count = lawn.swap_count

C3_Witness ==
    /\ FromCanonical
    /\ BothReturned
    /\ ~resorted
    /\ ltr.swap_count > 1
    /\ ltr.passes # lawn.passes

\* ---------------------------------------------------------------- C4
FourCanonical == <<DISK_DARK, DISK_LIGHT, DISK_DARK, DISK_LIGHT>>
FourSorted == <<DISK_LIGHT, DISK_LIGHT, DISK_DARK, DISK_DARK>>

\* C4 as stated: for n = 2 sort_left_to_right returns [LIGHT, LIGHT, DARK,
\* DARK] with swap count 2 and sort_lawnmower returns the same count.
C4_Original ==
    (Sorting /\ before = FourCanonical /\ BothReturned) =>
        /\ ltr.after = FourSorted
        /\ ltr.swap_count = 2
        /\ lawn.swap_count = ltr.swap_count

\* C4 as amended: for n = 2 sort_left_to_right returns [LIGHT, LIGHT, DARK,
\* DARK] with swap count 3 and sort_lawnmower returns the same count, 3.
C4_SwapCountThree ==
    /\ (Sorting /\ before = FourCanonical /\ LtrReturned) =>
          /\ ltr.after = FourSorted
          /\ ltr.swap_count = 3
    /\ (Sorting /\ before = FourCanonical /\ LawnReturned) =>
          lawn.swap_count = 3

C4_Witness ==
    /\ Sorting
    /\ light_count = 2
    /\ before = FourCanonical
    /\ BothReturned
    /\ ~resorted

\* ---------------------------------------------------------------- C5
\* C5: on a row that is already sorted, in particular one a previous run
\* returned, either algorithm never enters its loop: it returns swap count 0
\* and a row equal to its input.
C5_Idempotent ==
    (Sorting /\ LightHalfFirst(before, light_count)) =>
        /\ ltr.pc \in {"while", "done"}
        /\ ltr.swap_count = 0
        /\ ltr.after = before
        /\ lawn.pc \in {"while", "done"}
        /\ lawn.swap_count = 0
        /\ lawn.after = before

C5_Witness ==
    /\ resorted
    /\ LightHalfFirst(before, light_count)
    /\ BothReturned
    /\ light_count > 1

\* ---------------------------------------------------------------- C6
C6_FailsExactly ==
    /\ call.op = "get" =>
          ((phase = "aborted") <=> (call.index >= 2 * light_count))
    /\ call.op = "swap" =>
          ((phase = "aborted") <=>
              (call.index >= 2 * light_count \/ call.index + 1 >= 2 * light_count))

C6_CallEffect ==
    /\ (phase = "built" /\ call'.op = "get") => colors' = colors
    /\ (phase = "built" /\ call'.op = "swap" /\ phase' = "aborted") =>
          colors' = colors
    /\ (phase = "built" /\ call'.op = "swap" /\ phase' = "built") =>
          /\ Len(colors') = Len(colors)
          /\ colors'[call'.index + 1] = colors[call'.index + 2]
          /\ colors'[call'.index + 2] = colors[call'.index + 1]
          /\ \A p \in 1 .. Len(colors) :
                p \notin {call'.index + 1, call'.index + 2} => colors'[p] = colors[p]

\* C6: on a row of 2n disks get(i) fails exactly when i >= 2n and swap(i)
\* exactly when i >= 2n or i+1 >= 2n; a failing call leaves the row as it
\* was, and a successful swap(i) exchanges the elements at i and i+1 and
\* changes no other position.
C6_Preconditions == []C6_FailsExactly /\ [][C6_CallEffect]_vars

C6_Witness ==
    /\ light_count = 2
    /\ call.op = "swap"
    /\ call.index = 3
    /\ phase = "aborted"
    /\ colors # AlternatingRow(2)

\* ---------------------------------------------------------------- C7
\* C7: on the canonical row of n disks of each colour, the swap count either
\* algorithm returns is at least 0 and at most n*n.
C7_SwapCountBound ==
    /\ (FromCanonical /\ LtrReturned) =>
          (ltr.swap_count >= 0 /\ ltr.swap_count <= light_count * light_count)
    /\ (FromCanonical /\ LawnReturned) =>
          (lawn.swap_count >= 0 /\ lawn.swap_count <= light_count * light_count)

C7_Witness ==
    /\ FromCanonical
    /\ BothReturned
    /\ light_count = MaxN
    /\ lawn.swap_count > light_count
    /\ ltr.swap_count > light_count

\* ---------------------------------------------------------------- C8
\* C8: on the canonical row, sort_lawnmower never enters more outer-loop
\* iterations than sort_left_to_right executes in total.
C8_FewerPasses ==
    (FromCanonical /\ LtrReturned) => lawn.passes <= ltr.passes

C8_Witness ==
    /\ FromCanonical
    /\ BothReturned
    /\ lawn.passes < ltr.passes

\* ---------------------------------------------------------------- C9
RowKeepsDisks(c) ==
    /\ Len(c) = 2 * light_count
    /\ CountOf(c, DISK_LIGHT) = light_count
    /\ CountOf(c, DISK_DARK) = light_count
    /\ is_sorted(c) <=> LightHalfFirst(c, light_count)

\* C9: every row reached from disk_state(n) by valid swaps (by the driver or
\* by an algorithm) has length 2n with n light and n dark disks, and
\* is_sorted() is true on it exactly when the lights fill indices [0, n) and
\* the darks indices [n, 2n).
C9_SwapsPermute ==
    /\ (phase = "built" \/ (phase = "aborted" /\ light_count > 0)) =>
          RowKeepsDisks(colors)
    /\ Sorting => (RowKeepsDisks(ltr.after) /\ RowKeepsDisks(lawn.after))

C9_Witness ==
    /\ phase = "built"
    /\ call.op = "swap"
    /\ light_count = MaxN
    /\ is_sorted(colors)
    /\ LightHalfFirst(colors, light_count)

\* ---------------------------------------------------------------- C10
\* a step of run r to r2 that counts a swap exchanges a dark disk at some
\* index with the light disk right after it and removes one inversion
CountedSwap(r, r2) ==
    r2.swap_count # r.swap_count =>
        /\ r2.swap_count = r.swap_count + 1
        /\ Inversions(r2.after) = Inversions(r.after) - 1
        /\ \E p \in 1 .. (Len(r.after) - 1) :
              /\ r.after[p] = DISK_DARK
              /\ r.after[p + 1] = DISK_LIGHT
              /\ r2.after = [r.after EXCEPT ![p] = DISK_LIGHT, ![p + 1] = DISK_DARK]

C10_EverySwap ==
    (Sorting /\ phase' = "sorting" /\ before' = before) =>
        (CountedSwap(ltr, ltr') /\ CountedSwap(lawn, lawn'))

C10_Returned ==
    /\ LtrReturned => ltr.swap_count = Inversions(before)
    /\ LawnReturned => lawn.swap_count = Inversions(before)
    /\ (FromCanonical /\ LtrReturned) =>
          2 * ltr.swap_count = light_count * (light_count + 1)
    /\ (FromCanonical /\ LawnReturned) =>
          2 * lawn.swap_count = light_count * (light_count + 1)

====
